---- MODULE Spec2Model ----
(***************************************************************************)
(* Model of the DateTimePicker patch in src/static/src/datetime_picker.js: *)
(* the onPropsUpdated handler that recomputes the widget's selection state *)
(* from a new set of props.                                                *)
(*                                                                         *)
(* A date/time point is a record [tag, ts]: tag "dt" is a valid luxon      *)
(* DateTime whose local wall-clock instant is ts milliseconds after the    *)
(* start of day 0; "invalid" is a DateTime with isValid = false; "null" is *)
(* JavaScript null; "today" is the limit sentinel string; "undefined" is a *)
(* field that was never assigned.  Limits are drawn from absent, "today"   *)
(* and valid points (the DateLimit typedef, line 28).                      *)
(***************************************************************************)
EXTENDS Integers, Sequences, FiniteSets, TLC

VARIABLES
    this,      \* the component's own fields, written by onPropsUpdated
    props,     \* this.props: the props of the last update that completed
    lastProps, \* the argument of the latest onPropsUpdated call
    now,       \* the clock collaborator: DateTime.local()
    thrown,    \* how the latest call ended: "none" or the error it raised
    steps      \* the statements the latest call executed, in order

vars == <<this, props, lastProps, now, thrown, steps>>

----------------------------------------------------------------------------
(* Bounds of the model *)

\* The representable dates span days 0..MaxDay (MAX_VALID_DATE is the start of the last one).
MaxDay == 3
\* Rounding intervals 0..MaxRounding are explored (besides a few larger ones).
MaxRounding == 6

----------------------------------------------------------------------------
(* Date/time points *)

SecondMs == 1 * 1000
MinuteMs == 60 * SecondMs
HourMs == 60 * MinuteMs
DayMs == 24 * HourMs

At(day, h, m, s) == day * DayMs + h * HourMs + m * MinuteMs + s * SecondMs

DT(ts) == [tag |-> "dt", ts |-> ts]
Null == [tag |-> "null", ts |-> 0]
Invalid == [tag |-> "invalid", ts |-> 0]
TodaySentinel == [tag |-> "today", ts |-> 0]
Undefined == [tag |-> "undefined", ts |-> 0]

\* JavaScript truthiness of a value slot or limit (objects and non-empty strings are truthy)
Truthy(v) == v.tag \notin {"null", "undefined"}

\* luxon accessors of a valid point
HourOf(ts) == (ts \div HourMs) % 24
MinuteOf(ts) == (ts \div MinuteMs) % 60
SecondOf(ts) == (ts \div SecondMs) % 60

\* luxon startOf("day") / endOf("day")
StartOfDay(d) == DT((d.ts \div DayMs) * DayMs)
EndOfDay(d) == DT((d.ts \div DayMs) * DayMs + DayMs - 1)

\* @web/core/l10n/dates: the absolute bounds, and today() = DateTime.local().startOf("day")
MIN_VALID_DATE == DT(0)
MAX_VALID_DATE == DT(MaxDay * DayMs)
today(clock) == StartOfDay(DT(clock))

\* @web/core/l10n/dates clampDate(desired, minDate, maxDate)
clampDate(desired, lo, hi) ==
    IF desired.ts > hi.ts THEN hi
    ELSE IF desired.ts < lo.ts THEN lo
    ELSE desired

\* line 121-122
parseLimitDate(value, defaultValue, clock) ==
    clampDate(IF value.tag = "today" THEN today(clock)
              ELSE IF Truthy(value) THEN value ELSE defaultValue,
              MIN_VALID_DATE, MAX_VALID_DATE)

----------------------------------------------------------------------------
(* Time constants, lines 115 and 135-137 *)

\* numberRange(min, max): the integers min .. max-1 in order
numberRange(min, max) == [i \in 1..(max - min) |-> i - 1 + min]

\* String(n).padStart(2, "0")
PadStart2(str) == IF Len(str) < 2 THEN "0" \o str ELSE str

HourEntry(hour) == <<hour, ToString(hour)>>
MinuteEntry(minute) == <<minute, PadStart2(ToString(minute))>>

HOURS == [i \in 1..Len(numberRange(0, 24)) |-> HourEntry(numberRange(0, 24)[i])]
MINUTES == [i \in 1..Len(numberRange(0, 60)) |-> MinuteEntry(numberRange(0, 60)[i])]
SECONDS == MINUTES

\* JavaScript a % b on non-negative integers; b = 0 gives NaN
JsMod(a, b) == IF b = 0 THEN "NaN" ELSE ToString(a % b)
\* !(x) for a number x: true for 0 and NaN
JsNot(x) == x \in {"0", "NaN"}

----------------------------------------------------------------------------
(* Collaborators of the patched component that live outside this file *)

\* @web/core/utils/arrays ensureArray: an iterable is spread, anything else is wrapped.
\* A value prop is [iterable, items]; a non-iterable one holds its single item.
ensureArray(value) == IF value.iterable THEN value.items ELSE <<value.items[1]>>

\* this.env.isSmall: the desktop layout
EnvIsSmall == FALSE

PRECISION_LEVELS == <<"days", "months", "years", "decades">>
IndexOf(s, x) == IF \E i \in 1..Len(s) : s[i] = x
                 THEN CHOOSE i \in 1..Len(s) : s[i] = x /\ \A j \in 1..(i - 1) : s[j] # x
                 ELSE 0
\* DateTimePicker.filterPrecisionLevels: the slice from minPrecision through maxPrecision
filterPrecisionLevels(minPrecision, maxPrecision) ==
    SubSeq(PRECISION_LEVELS, IndexOf(PRECISION_LEVELS, minPrecision),
           IndexOf(PRECISION_LEVELS, maxPrecision))

\* DateTimePicker.adjustFocus(values, focusedDateIndex): runs in single-value mode only
\* (shouldAdjustFocusDate, line 182); the earliest non-empty value at or after the
\* requested index anchors the focus; with none, the focus is left alone.
adjustFocus(self, values, focusedDateIndex) ==
    LET at == {i \in 1..Len(values) : i >= focusedDateIndex + 1 /\ Truthy(values[i])}
        first == CHOOSE i \in at : \A j \in at : i <= j
    IN  IF ~self.shouldAdjustFocusDate THEN self
        ELSE [self EXCEPT !.shouldAdjustFocusDate = FALSE,
                          !.state.focusDate = IF at = {} THEN @ ELSE values[first]]

\* DateTimePicker.handle12HourSystem: resolves the locale's clock mode (24-hour here)
handle12HourSystem(self) == [self EXCEPT !.is12HourFormat = FALSE]

----------------------------------------------------------------------------
(* Entries of the sparse array this.state.timeValues *)

Hole == [kind |-> "hole", nums |-> <<>>, strs |-> <<>>]
UndefinedEntry == [kind |-> "undefined", nums |-> <<>>, strs |-> <<>>]
Nums(t) == [kind |-> "nums", nums |-> t, strs |-> <<>>]
Strs(t) == [kind |-> "strs", nums |-> <<>>, strs |-> t]

\* line 144-146: value && !value.isValid ? null : value
NormalizeValue(value) == IF Truthy(value) /\ value.tag # "dt" THEN Null ELSE value

\* a variant of the filter of line 148 without the negation
MinuteAllowedNoNegation(minute, rounding) == ~JsNot(JsMod(minute[1], rounding))

\* line 148: the filter predicate on a MINUTES entry
MinuteAllowed(minute, rounding) == JsNot(JsMod(minute[1], rounding))

\* line 168-172: the triple computed for one slot, and whether computing it throws
\* (val.minute on null is a TypeError)
SlotThrows(val) == ~Truthy(val)
SlotTimes(val, clock) ==
    << HourOf(IF Truthy(val) THEN val.ts ELSE clock),
       IF MinuteOf(val.ts) # 0 THEN MinuteOf(val.ts) ELSE MinuteOf(clock),
       IF SecondOf(val.ts) # 0 THEN SecondOf(val.ts) ELSE SecondOf(clock) >>

\* line 178-179: a fresh array with index focusedDateIndex assigned from timeValues
SingleSlot(timeValues, focusedDateIndex) ==
    [i \in 1..(focusedDateIndex + 1) |->
        IF i <= focusedDateIndex THEN Hole
        ELSE IF i <= Len(timeValues) THEN timeValues[i] ELSE UndefinedEntry]

\* line 185: Array.prototype.map skips holes; timeValue.map on undefined is a TypeError
FormatThrows(timeValues) == \E i \in 1..Len(timeValues) : timeValues[i].kind = "undefined"
FormatEntry(timeValue) ==
    IF timeValue.kind = "nums"
    THEN Strs([i \in 1..Len(timeValue.nums) |-> ToString(timeValue.nums[i])])
    ELSE timeValue

----------------------------------------------------------------------------
(* onPropsUpdated, lines 142-186, statement by statement.  A machine state  *)
(* is [self, timeValues, thrown, steps]: the component, the local const of  *)
(* line 168, the error raised so far and the statements executed.           *)

\* a variant of the handler that adjusts the focus before it selects the slots
BodyAdjustFirst == << "values", "availableHours", "availableMinutes", "availableSeconds",
           "allowedPrecisionLevels", "additionalMonth", "maxDate", "minDate",
           "widen", "checkLimits", "timeValues", "shouldAdjustFocusDate", "adjustFocus",
           "selectSlots", "handle12HourSystem", "format" >>

\* the statements of the handler in program order
Body == << "values", "availableHours", "availableMinutes", "availableSeconds",
           "allowedPrecisionLevels", "additionalMonth", "maxDate", "minDate",
           "widen", "checkLimits", "timeValues", "selectSlots",
           "shouldAdjustFocusDate", "adjustFocus", "handle12HourSystem", "format" >>

\* line 158: the props whose type decides the widening
WidenType(thisProps, nextProps) == thisProps.type

\* a variant of the check of line 163 with the comparison turned around
LimitsInvertedSwapped(maxDate, minDate) == maxDate.ts > minDate.ts

\* line 163
LimitsInverted(maxDate, minDate) == maxDate.ts < minDate.ts

Exec(stmt, m, thisProps, nextProps, clock) ==
    LET self == m.self IN
    CASE stmt = "values" ->
           [m EXCEPT !.self.values =
                LET given == ensureArray(nextProps.value)
                IN  [i \in 1..Len(given) |-> NormalizeValue(given[i])]]
      [] stmt = "availableHours" ->
           [m EXCEPT !.self.availableHours = HOURS]
      [] stmt = "availableMinutes" ->
           [m EXCEPT !.self.availableMinutes =
                LET Keep(minute) == MinuteAllowed(minute, nextProps.rounding)
                IN  SelectSeq(MINUTES, Keep)]
      [] stmt = "availableSeconds" ->
           [m EXCEPT !.self.availableSeconds =
                IF nextProps.rounding # 0 THEN <<>> ELSE SECONDS]
      [] stmt = "allowedPrecisionLevels" ->
           [m EXCEPT !.self.allowedPrecisionLevels =
                filterPrecisionLevels(nextProps.minPrecision, nextProps.maxPrecision)]
      [] stmt = "additionalMonth" ->
           [m EXCEPT !.self.additionalMonth = nextProps.range /\ ~EnvIsSmall]
      [] stmt = "maxDate" ->
           [m EXCEPT !.self.maxDate = parseLimitDate(nextProps.maxDate, MAX_VALID_DATE, clock)]
      [] stmt = "minDate" ->
           [m EXCEPT !.self.minDate = parseLimitDate(nextProps.minDate, MIN_VALID_DATE, clock)]
      [] stmt = "widen" ->
           IF WidenType(thisProps, nextProps) = "date"
           THEN [m EXCEPT !.self.maxDate = EndOfDay(self.maxDate),
                          !.self.minDate = StartOfDay(self.minDate)]
           ELSE m
      [] stmt = "checkLimits" ->
           IF LimitsInverted(self.maxDate, self.minDate)
           THEN [m EXCEPT !.thrown = "ConfigurationError"]
           ELSE m
      [] stmt = "timeValues" ->
           IF \E i \in 1..Len(self.values) : SlotThrows(self.values[i])
           THEN [m EXCEPT !.thrown = "TypeError"]
           ELSE [m EXCEPT !.timeValues =
                    [i \in 1..Len(self.values) |-> Nums(SlotTimes(self.values[i], clock))]]
      [] stmt = "selectSlots" ->
           IF nextProps.range
           THEN [m EXCEPT !.self.state.timeValues = m.timeValues]
           ELSE [m EXCEPT !.self.state.timeValues =
                    SingleSlot(m.timeValues, nextProps.focusedDateIndex)]
      [] stmt = "shouldAdjustFocusDate" ->
           [m EXCEPT !.self.shouldAdjustFocusDate = ~nextProps.range]
      [] stmt = "adjustFocus" ->
           [m EXCEPT !.self = adjustFocus(self, self.values, nextProps.focusedDateIndex)]
      [] stmt = "handle12HourSystem" ->
           [m EXCEPT !.self = handle12HourSystem(self)]
      [] stmt = "format" ->
           IF FormatThrows(self.state.timeValues)
           THEN [m EXCEPT !.thrown = "TypeError"]
           ELSE [m EXCEPT !.self.state.timeValues =
                    [i \in 1..Len(self.state.timeValues) |->
                        FormatEntry(self.state.timeValues[i])]]

\* run the statements from the i-th on, stopping at the first error
RECURSIVE RunFrom(_, _, _, _, _)
RunFrom(i, m, thisProps, nextProps, clock) ==
    IF i > Len(Body) \/ m.thrown # "none" THEN m
    ELSE RunFrom(i + 1,
                 [Exec(Body[i], m, thisProps, nextProps, clock)
                    EXCEPT !.steps = Append(m.steps, Body[i])],
                 thisProps, nextProps, clock)

Call(self, thisProps, nextProps, clock) ==
    RunFrom(1, [self |-> self, timeValues |-> <<>>, thrown |-> "none", steps |-> <<>>],
            thisProps, nextProps, clock)

----------------------------------------------------------------------------
(* The props explored *)

Single(v) == [iterable |-> FALSE, items |-> <<v>>]
Pair(a, b) == [iterable |-> TRUE, items |-> <<a, b>>]

\* the clock readings
Nows == {At(1, 9, 7, 3), At(2, 0, 0, 0)}

\* valid points offered as values: a midnight and the last second of a day
ValuePoints == {DT(At(1, 0, 0, 0)), DT(At(2, 23, 59, 59))}
ValueSlots == {Null, Invalid} \cup ValuePoints
Values == {Single(v) : v \in ValueSlots} \cup {Pair(a, b) : a, b \in ValueSlots}

\* limits: absent, "today", two points of day 1 and one past MAX_VALID_DATE
Limits == {Null, TodaySentinel, DT(At(1, 8, 0, 0)), DT(At(1, 16, 0, 0)), DT(At(MaxDay, 12, 0, 0))}

Roundings == (0..MaxRounding) \cup {15, 30, 60, 61}

\* the defaults of the typedef (lines 35-47) with one valid value
DefaultProps ==
    [value |-> Single(DT(At(2, 23, 59, 59))), range |-> FALSE, focusedDateIndex |-> 0,
     minDate |-> Null, maxDate |-> Null, type |-> "datetime", rounding |-> 5,
     minPrecision |-> "days", maxPrecision |-> "decades"]

LimitProps == {[DefaultProps EXCEPT !.minDate = lo, !.maxDate = hi, !.type = t] :
                  lo \in Limits, hi \in Limits, t \in {"date", "datetime"}}
\* the range flag follows the shape of the value (a pair in range mode, one point otherwise)
ValueProps == {[DefaultProps EXCEPT !.value = v, !.range = v.iterable, !.focusedDateIndex = i] :
                  v \in Values, i \in {0, 1}}
RoundingProps == {[DefaultProps EXCEPT !.rounding = r, !.value = Single(v),
                                       !.minPrecision = lo, !.maxPrecision = hi] :
                  r \in Roundings, v \in ValuePoints,
                  lo \in {"days", "months"}, hi \in {"years", "decades"}}

----------------------------------------------------------------------------
(* The component *)

\* the fields before setup() has run onPropsUpdated for the first time
Blank ==
    [values |-> <<>>, availableHours |-> <<>>, availableMinutes |-> <<>>,
     availableSeconds |-> <<>>, allowedPrecisionLevels |-> <<>>, additionalMonth |-> FALSE,
     maxDate |-> Undefined, minDate |-> Undefined, shouldAdjustFocusDate |-> FALSE,
     is12HourFormat |-> FALSE, state |-> [timeValues |-> <<>>, focusDate |-> Null]]

\* setup() calls onPropsUpdated(this.props); a component whose setup throws never exists
Setup(P) ==
    \E p \in P, clock \in Nows :
        \E m \in {Call(Blank, p, p, clock)} :
        /\ m.thrown = "none"
        /\ this = m.self
        /\ props = p
        /\ lastProps = p
        /\ now = clock
        /\ thrown = "none"
        /\ steps = m.steps

\* onWillUpdateProps(nextProps) runs onPropsUpdated(nextProps) while this.props still holds
\* the previous props; the framework installs nextProps only when the hook returns.
onPropsUpdated(nextProps) ==
    \E m \in {Call(this, props, nextProps, now)} :
    /\ this' = m.self
    /\ props' = IF m.thrown = "none" THEN nextProps ELSE props
    /\ lastProps' = nextProps
    /\ thrown' = m.thrown
    /\ steps' = m.steps
    /\ UNCHANGED now

\* the clock moves between updates
Tick ==
    /\ \E clock \in Nows \ {now} : now' = clock
    /\ UNCHANGED <<this, props, lastProps, thrown, steps>>

\* The host changes the limits and the type
UpdateLimits == \E nextProps \in LimitProps : onPropsUpdated(nextProps)
\* The host changes the value, the range flag and the focused index
UpdateValue == \E nextProps \in ValueProps : onPropsUpdated(nextProps)
\* The host changes the rounding
UpdateRounding == \E nextProps \in RoundingProps : onPropsUpdated(nextProps)

Init == Setup(LimitProps)
Next == UpdateLimits \/ Tick
Spec == Init /\ [][Next]_vars

InitValue == Setup(ValueProps)
NextValue == UpdateValue \/ Tick
SpecValue == InitValue /\ [][NextValue]_vars

InitRounding == Setup(RoundingProps)
NextRounding == UpdateRounding \/ Tick
SpecRounding == InitRounding /\ [][NextRounding]_vars

----------------------------------------------------------------------------
(* Properties *)

Range(s) == {s[i] : i \in 1..Len(s)}
Ran(stmt) == stmt \in Range(steps)
Position(stmt) == IndexOf(steps, stmt)

\* the fields a synchronization publishes
Published(self) ==
    <<self.values, self.availableHours, self.availableMinutes, self.availableSeconds,
      self.allowedPrecisionLevels, self.minDate, self.maxDate, self.state.timeValues>>

\* the value slots handed to the latest call
GivenSlots == ensureArray(lastProps.value)

\* the display strings of a point's own hour, minute and second
OwnTimes(d) == <<ToString(HourOf(d.ts)), ToString(MinuteOf(d.ts)), ToString(SecondOf(d.ts))>>
ClockTimes == <<ToString(HourOf(now)), ToString(MinuteOf(now)), ToString(SecondOf(now))>>

\* C1: a call that raises the configuration error leaves every published field
\* (values, available hours/minutes/seconds, precision levels, limits, time values)
\* as it was before the call.
C1_FailedCallPublishesNothing ==
    [][thrown' = "ConfigurationError" => Published(this)' = Published(this)]_vars

C3_SameCallSameSnapshot ==
    [][(lastProps' = lastProps /\ now' = now /\ thrown = "none" /\ thrown' = "none")
          => Published(this)' = Published(this)]_vars

\* C4: every slot holding a valid point gets that point's own hour, minute and second
\* as its time components, whatever the clock reads.
C4_ValidSlotKeepsOwnTime ==
    thrown = "none" =>
        \A i \in 1..Len(this.state.timeValues) :
            (this.state.timeValues[i].kind = "strs" /\ GivenSlots[i].tag = "dt")
                => this.state.timeValues[i].strs = OwnTimes(GivenSlots[i])

\* C5: a call given an empty slot (null, or an invalid point) completes, keeps the slot
\* as null at its position and gives it the clock's hour, minute and second.
C5_EmptySlotGetsClockTime ==
    \A i \in 1..Len(GivenSlots) :
        GivenSlots[i].tag \in {"null", "invalid"} =>
            /\ thrown = "none"
            /\ Len(this.values) = Len(GivenSlots)
            /\ this.values[i] = Null
            /\ (lastProps.range \/ i = lastProps.focusedDateIndex + 1)
                  => /\ Len(this.state.timeValues) >= i
                     /\ this.state.timeValues[i].strs = ClockTimes

\* C6: in range mode values has length 2 and both slots carry time components; for
\* value = [null, validDate] slot 0 carries the clock's time and slot 1 validDate's.
C6_RangeHasBothSlots ==
    lastProps.range =>
        /\ thrown = "none"
        /\ Len(this.values) = 2
        /\ Len(this.state.timeValues) = 2
        /\ \A i \in 1..2 : this.state.timeValues[i].kind = "strs"
        /\ (GivenSlots[1] = Null /\ GivenSlots[2].tag = "dt")
              => /\ this.values = <<Null, GivenSlots[2]>>
                 /\ this.state.timeValues[1].strs = ClockTimes
                 /\ this.state.timeValues[2].strs = OwnTimes(GivenSlots[2])

\* C7: in single-value mode with focusedDateIndex 0 or 1, values has length 1 and
\* state.timeValues holds a triple of strings at the focus slot and at no other slot.
C7_SingleHasFocusSlotOnly ==
    (~lastProps.range /\ lastProps.focusedDateIndex \in {0, 1}) =>
        /\ thrown = "none"
        /\ Len(this.values) = 1
        /\ Len(this.state.timeValues) = lastProps.focusedDateIndex + 1
        /\ \A i \in 1..Len(this.state.timeValues) :
              IF i = lastProps.focusedDateIndex + 1
              THEN this.state.timeValues[i].kind = "strs"
                   /\ Len(this.state.timeValues[i].strs) = 3
              ELSE this.state.timeValues[i].kind = "hole"

\* C8: when the props passed to the call have the date-only type, maxDate is the end of
\* its day and minDate the start of its day.
C8_DateTypeWidens ==
    (lastProps.type = "date" /\ Ran("widen")) =>
        /\ this.maxDate = EndOfDay(this.maxDate)
        /\ this.minDate = StartOfDay(this.minDate)

\* C9: availableMinutes is the multiples of rounding among 0..59 (all of 0..59 for
\* rounding 0), in order and zero-padded; availableSeconds is all of 0..59 for rounding 0
\* and empty otherwise; availableHours is 0..23.
C9_RoundingLaw ==
    LET r == lastProps.rounding
        multiples == IF r > 0 THEN {n \in 0..59 : \E k \in 0..59 : n = k * r} ELSE 0..59
        minutes == this.availableMinutes
        seconds == this.availableSeconds
        hours == this.availableHours
    IN  /\ {minutes[i][1] : i \in 1..Len(minutes)} = multiples
        /\ Len(minutes) = Cardinality(multiples)
        /\ \A i \in 1..(Len(minutes) - 1) : minutes[i][1] < minutes[i + 1][1]
        /\ \A i \in 1..Len(minutes) :
              /\ Len(minutes[i][2]) = 2
              /\ minutes[i][2] = (IF minutes[i][1] < 10 THEN "0" ELSE "") \o ToString(minutes[i][1])
        /\ IF r = 0
           THEN Len(seconds) = 60 /\ \A i \in 1..60 : seconds[i][1] = i - 1
           ELSE seconds = <<>>
        /\ Len(hours) = 24 /\ \A i \in 1..24 : hours[i] = <<i - 1, ToString(i - 1)>>

\* C9 witness: a call with rounding 5 left the twelve minutes 0, 5, ..., 55 and no seconds.
C9_Witness ==
    /\ lastProps.rounding = 5
    /\ Len(this.availableMinutes) = 12
    /\ this.availableMinutes[12] = <<55, "55">>
    /\ this.availableSeconds = <<>>

====
